---- MODULE Spec2Model ----
(***************************************************************************)
(* Model of src/main.py: the Riftbound card image scraper.                 *)
(*                                                                         *)
(* A URL string is modelled by its parsed structure                        *)
(*   scheme://host/dirs[1]/.../dirs[n]/<leaf>/<name><ext>?query#fragment   *)
(* where leaf is either <<>> (no such segment) or <<prefix, digits>>, the  *)
(* card code segment "<PREFIX>-<NNN>".  ext is the part of the last path    *)
(* segment from its last "." on ("" when there is none).                   *)
(* The network and the file system are the environment: every request     *)
(* nondeterministically succeeds or fails in each way the code tells apart.*)
(***************************************************************************)
EXTENDS Integers, Sequences, FiniteSets, TLC

\* ------------------------------------------------------------------ bounds
\* longest list of candidate URLs the extractor collects from one page
MaxCands == 3
\* highest low card code the CDN may answer 200 for
MaxCard == 2
\* a miss limit larger than any scan, so that it is never reached
HugeMissLimit == 5000

\* ------------------------------------------------------- program constants
\* range(start, 2000), line 172
UpperBound == 2000

\* (".png", ".jpg", ".jpeg", ".webp", ".gif"), lines 91 and 98
exts == <<".png", ".jpg", ".jpeg", ".webp", ".gif">>

\* str.lower() on the extension tokens of the model
Lower(s) ==
    CASE s = ".PNG" -> ".png"
      [] s = ".JPG" -> ".jpg"
      [] OTHER -> s

\* [A-Z]+ of PREFIX_RE on the path segments of the model
IsUpperWord(s) == s \in {"OGS", "OGN"}

\* f"{n:03d}" as the sequence of its decimal digits (n >= 0)
RECURSIVE Digits(_)
Digits(n) == IF n < 10 THEN <<n>> ELSE Append(Digits(n \div 10), n % 10)

Fmt03(n) ==
    LET d == Digits(n)
    IN  IF Len(d) >= 3 THEN d
        ELSE IF Len(d) = 2 THEN <<0>> \o d
        ELSE <<0, 0>> \o d

\* ------------------------------------------------------------------- URLs
MkUrl(scheme, dirs, leaf, name, ext, query, fragment) ==
    [scheme |-> scheme, host |-> "cdn.rgpub.io", dirs |-> dirs, leaf |-> leaf,
     name |-> name, ext |-> ext, query |-> query, fragment |-> fragment]

\* f"https://cdn.rgpub.io/public/live/map/riftbound/latest/{prefix}/cards/{{code}}/"
CdnDirs(prefix) ==
    <<"public", "live", "map", "riftbound", "latest", prefix, "cards">>

\* The URLs a listing page of the model can reference (after urljoin, so all
\* are absolute).
U1 == MkUrl("https", CdnDirs("OGS"), <<"OGS", <<0, 0, 1>>>>, "full-desktop", ".jpg", "", "")
U2 == MkUrl("https", CdnDirs("OGS"), <<"OGS", <<0, 0, 1>>>>, "full-desktop", ".jpg", "v=2", "")
U3 == MkUrl("https", CdnDirs("OGS"), <<"OGS", <<0, 0, 2>>>>, "full-desktop", ".PNG", "", "top")
U4 == MkUrl("https", <<"img">>, <<>>, "logo", ".webp", "", "")
U5 == MkUrl("https", <<"img">>, <<>>, "icon", ".svg", "", "")
U6 == MkUrl("https", CdnDirs("ogn"), <<"ogn", <<0, 0, 1>>>>, "full-desktop", ".jpg", "", "")

PageUrls == {U1, U2, U3, U4, U5, U6}

\* ---------------------------------------------------------- pure functions
\* mutant of normalize: the query string is left in the key
NormalizeKeepQuery(u) == [u EXCEPT !.fragment = ""]

\* urlparse(u)._replace(query="", fragment="").geturl(), lines 73-75
normalize(u) == [u EXCEPT !.query = "", !.fragment = ""]

\* u.startswith("//") -> "https:" + u, lines 83-84
UpgradeScheme(u) == IF u.scheme = "" THEN [u EXCEPT !.scheme = "https"] ELSE u

\* the dedupe loop, lines 77-88: first occurrence of a key wins
RECURSIVE DedupeFrom(_, _, _)
DedupeFrom(cs, seen, acc) ==
    IF cs = <<>> THEN acc
    ELSE LET u   == UpgradeScheme(Head(cs))
             key == normalize(u)
         IN  IF key \notin seen
             THEN DedupeFrom(Tail(cs), seen \cup {key}, Append(acc, u))
             ELSE DedupeFrom(Tail(cs), seen, acc)

Dedupe(cs) == DedupeFrom(cs, {}, <<>>)

\* urlparse(u).path.lower().endswith(ext)
PathEndsWith(u, ext) == Lower(u.ext) = ext

\* any(... endswith(ext) for ext in exts), line 92
HasImageExt(u) == \E k \in 1..Len(exts) : PathEndsWith(u, exts[k])

\* [u for u in result if ...], line 92
FilterExt(us) == SelectSeq(us, HasImageExt)

\* extract_image_urls from the collected candidates on, lines 72-93
extract_image_urls(cs) == FilterExt(Dedupe(cs))

\* file_ext_for_url, lines 96-101: the first matching extension, else .jpg
file_ext_for_url(u) ==
    IF \E k \in 1..Len(exts) : PathEndsWith(u, exts[k])
    THEN exts[CHOOSE k \in 1..Len(exts) :
                 /\ PathEndsWith(u, exts[k])
                 /\ \A j \in 1..(k - 1) : ~PathEndsWith(u, exts[j])]
    ELSE ".jpg"

\* the path segments of u that precede the file name
PathDirs(u) == IF u.leaf = <<>> THEN u.dirs ELSE Append(u.dirs, "code")

\* PREFIX_RE.search on the path, lines 104-109: the positions where
\* /riftbound/latest/([A-Z]+)/cards/ matches
PrefixMatches(u) ==
    {k \in 1..(Len(PathDirs(u)) - 3) :
        /\ PathDirs(u)[k] = "riftbound"
        /\ PathDirs(u)[k + 1] = "latest"
        /\ IsUpperWord(PathDirs(u)[k + 2])
        /\ PathDirs(u)[k + 3] = "cards"}

NoPrefix == "None"

detect_prefix(u) ==
    IF PrefixMatches(u) = {} THEN NoPrefix
    ELSE LET k == CHOOSE m \in PrefixMatches(u) : \A n \in PrefixMatches(u) : m <= n
         IN  PathDirs(u)[k + 2]

\* detect_prefix(u) or "misc", line 126
Category(u) == IF detect_prefix(u) = NoPrefix THEN "misc" ELSE detect_prefix(u)

\* Code point order of the tokens of the model ('#' < '.' < digits < '?' <
\* upper case < lower case), as str.__lt__ compares them.
TokenOrd(s) ==
    CASE s = "" -> 0
      [] s = ".PNG" -> 1
      [] s = ".jpg" -> 2
      [] s = ".png" -> 3
      [] s = ".svg" -> 4
      [] s = ".webp" -> 5
      [] s = "OGN" -> 6
      [] s = "OGS" -> 7
      [] s = "cards" -> 8
      [] s = "cdn.rgpub.io" -> 9
      [] s = "full-desktop" -> 10
      [] s = "http" -> 11
      [] s = "https" -> 12
      [] s = "icon" -> 13
      [] s = "img" -> 14
      [] s = "latest" -> 15
      [] s = "live" -> 16
      [] s = "logo" -> 17
      [] s = "map" -> 18
      [] s = "ogn" -> 19
      [] s = "public" -> 20
      [] s = "riftbound" -> 21
      [] s = "thumb" -> 22
      [] s = "top" -> 23
      [] s = "v=2" -> 24
      [] OTHER -> 25

\* the text of a URL as the sequence of its tokens' ranks
Text(u) ==
    <<TokenOrd(u.scheme), TokenOrd(u.host)>>
        \o [k \in 1..Len(u.dirs) |-> TokenOrd(u.dirs[k])]
        \o (IF u.leaf = <<>> THEN <<>> ELSE <<TokenOrd(u.leaf[1])>> \o u.leaf[2])
        \o <<TokenOrd(u.name), TokenOrd(u.ext), TokenOrd(u.query), TokenOrd(u.fragment)>>

\* lexicographic order of two sequences of ranks: at the first position
\* where they differ a has the smaller rank, or a ends there and b does not
LexLess(a, b) ==
    \E k \in 1..(Len(b)) :
        /\ k <= Len(a) + 1
        /\ \A j \in 1..(k - 1) : a[j] = b[j]
        /\ k <= Len(a) => a[k] < b[k]

\* a < b on str, as sorted compares the URLs
UrlLess(a, b) == \E ta \in {Text(a)}, tb \in {Text(b)} : LexLess(ta, tb)

\* the place sorted gives to us[k]: after the smaller elements and, sorted
\* being stable, after the equal ones that precede it
SortedPlace(us, k) ==
    1 + Cardinality({j \in 1..Len(us) :
                        \/ UrlLess(us[j], us[k])
                        \/ (~UrlLess(us[k], us[j]) /\ j < k)})

\* mutant of sorted: the URLs are downloaded in the order of extraction
Unsorted(us) == us

\* sorted(urls), line 236
sorted(us) ==
    [p \in 1..Len(us) |-> us[CHOOSE k \in 1..Len(us) : SortedPlace(us, k) = p]]

\* ------------------------------------------------------------------ state
VARIABLES
    pc,           \* where main is: "start", "extracted", "download", "scan",
                  \* "probe", "done" or "crashed" (unhandled exception)
    fetches,      \* GETs of the listing page so far
    page,         \* the listing page: "none" (not fetched), "failed" or "ok"
    cands,        \* the candidate URLs collected from the page, lines 34-70
    result,       \* what extract_image_urls returned
    calls,        \* the calls main made: "download_images", "fallback"
    urls,         \* download_images: its argument
    pos,          \* download_images: index of the next URL of the loop
    counters,     \* download_images: counters, line 123
    outs,         \* download_images: outs[k] is what happened to urls[k]
    prefixes,     \* fallback: its arguments
    start,
    miss_limit,
    asset,
    pfx,          \* fallback: index in prefixes of the prefix being scanned
    i,            \* fallback: the code of the inner loop, line 172
    miss_streak,  \* fallback: line 167
    idx,          \* fallback: line 170
    probed,       \* fallback: the probes of the current prefix, in order
    gets,         \* download_images: the GET requests issued, in order
    saved,        \* successful write_bytes calls, in order
    files         \* the files under images/: destination -> URL of the bytes

vars == <<pc, fetches, page, cands, result, calls, urls, pos, counters, outs,
          prefixes, start, miss_limit, asset, pfx, i, miss_streak, idx,
          probed, gets, saved, files>>

dlVars == <<urls, pos, counters, outs, gets>>
fbVars == <<prefixes, start, miss_limit, asset, pfx, i, miss_streak, idx, probed>>

\* all sequences over S of length at most n: the candidate lists a page can
\* give. The list is local to extract_image_urls, so main no longer holds it
\* (cands' = <<>>) once it goes on to one of its two calls.
SeqsUpTo(S, n) == UNION {[1..k -> S] : k \in 0..n}

\* --prefixes, --start, --miss-limit and --asset as the runs of the model
\* give them
PrefixLists == {<<>>, <<"OGS">>, <<"OGS", "OGN">>, <<"OGS", "OGS">>, <<"OGN", "OGS", "OGN">>}
Starts == {1, UpperBound - 2, UpperBound}
MissLimits == {0, 1, 2, 3, HugeMissLimit}
EmptyAsset == [lead |-> 0, name |-> "", ext |-> ""]
DefaultAsset == [lead |-> 0, name |-> "full-desktop", ext |-> ".jpg"]
Assets == {EmptyAsset, [lead |-> 1, name |-> "thumb", ext |-> ".png"]}

\* the codes for which the CDN of the model may hold a card
CardCodes == (1..MaxCard) \cup ((UpperBound - 2)..(UpperBound + 1))

\* the outcomes of the body of a try block that GETs and writes one image:
\* written, requests.get raised, raise_for_status raised, write_bytes raised
GetOutcomes == {"ok", "neterr", "status", "writeerr"}

\* dest.write_bytes(r.content): the file now holds the bytes of url
WriteBytes(fs, dest, url) ==
    [d \in (DOMAIN fs) \cup {dest} |-> IF d = dest THEN url ELSE fs[d]]

Init ==
    /\ pc = "start"
    /\ fetches = 0
    /\ page = "none"
    /\ cands = <<>>
    /\ result = <<>>
    /\ calls = <<>>
    /\ urls = <<>>
    /\ pos = 1
    /\ counters = <<>>
    /\ outs = <<>>
    /\ prefixes = <<>>
    /\ start = 1
    /\ miss_limit = 3
    /\ asset = DefaultAsset
    /\ pfx = 0
    /\ i = 1
    /\ miss_streak = 0
    /\ idx = 1
    /\ probed = <<>>
    /\ gets = <<>>
    /\ saved = <<>>
    /\ files = <<>>

\* ------------------------------------------------------------------- main
\* lines 221-222: requests.get(URL) or raise_for_status raises
FetchFail ==
    /\ pc = "start"
    /\ fetches' = fetches + 1
    /\ page' = "failed"
    /\ pc' = "crashed"
    /\ UNCHANGED <<cands, result, calls, saved, files>>
    /\ UNCHANGED dlVars
    /\ UNCHANGED fbVars

\* lines 221-223: the page is fetched and its image URLs extracted
FetchOk ==
    /\ pc = "start"
    /\ \E cs \in SeqsUpTo(PageUrls, MaxCands) :
          /\ cands' = cs
          /\ result' = extract_image_urls(cs)
    /\ fetches' = fetches + 1
    /\ page' = "ok"
    /\ pc' = "extracted"
    /\ UNCHANGED <<calls, saved, files>>
    /\ UNCHANGED dlVars
    /\ UNCHANGED fbVars

\* mutant of TakesFallback: a single URL is treated as none
TakesFallbackOffByOne(us) == Len(us) <= 1

\* if not urls, line 224
TakesFallback(us) == us = <<>>

\* lines 224-232 and 156-163: main calls fallback_guess_by_prefixes
CallFallback ==
    /\ pc = "extracted"
    /\ TakesFallback(result)
    /\ \E ps \in PrefixLists, st \in Starts,
          ml \in MissLimits, a \in Assets :
          /\ ml = HugeMissLimit => st >= UpperBound - 2
          /\ prefixes' = ps
          /\ start' = st
          /\ miss_limit' = ml
          /\ asset' = a
    /\ calls' = Append(calls, "fallback")
    /\ cands' = <<>>
    /\ pfx' = 0
    /\ pc' = "scan"
    /\ UNCHANGED <<fetches, page, result, saved, files>>
    /\ UNCHANGED <<i, miss_streak, idx, probed>>
    /\ UNCHANGED dlVars

\* lines 235-238 and 113-123: main sorts and calls download_images
CallDownload ==
    /\ pc = "extracted"
    /\ ~TakesFallback(result)
    /\ urls' = sorted(result)
    /\ pos' = 1
    /\ counters' = <<>>
    /\ outs' = <<>>
    /\ gets' = <<>>
    /\ calls' = Append(calls, "download_images")
    /\ cands' = <<>>
    /\ pc' = "download"
    /\ UNCHANGED <<fetches, page, result, saved, files>>
    /\ UNCHANGED fbVars

\* -------------------------------------------------------- download_images
\* counters.get(prefix, 1), line 129
CounterGet(cs, prefix) == IF prefix \in DOMAIN cs THEN cs[prefix] ELSE 1

\* counters[prefix] = n, line 136
CounterSet(cs, prefix, n) ==
    [c \in (DOMAIN cs) \cup {prefix} |-> IF c = prefix THEN n ELSE cs[c]]

\* subdir / f"{n:03d}{ext}", lines 127-131 and 168, 188
Dest(dir, n, ext) == [dir |-> dir, name |-> Fmt03(n), ext |-> ext]

\* mutant of AfterUrl: a URL whose download failed is tried again
RetryFailed(p, o) == IF o = "ok" THEN p + 1 ELSE p

\* the URL the for loop of line 125 takes after the one at position p,
\* whatever happened to that one
AfterUrl(p, o) == p + 1

\* one iteration of the loop, lines 125-139
DownloadStep ==
    /\ pc = "download"
    /\ pos <= Len(urls)
    /\ \E o \in GetOutcomes :
          LET u        == urls[pos]
              prefix   == Category(u)
              next_idx == CounterGet(counters, prefix)
              dest     == Dest(prefix, next_idx, file_ext_for_url(u))
          IN  /\ gets' = Append(gets, u)
              /\ outs' = Append(outs, o)
              /\ IF o = "ok"
                 THEN /\ files' = WriteBytes(files, dest, u)
                      /\ saved' = Append(saved, [dest |-> dest, url |-> u, pass |-> 0])
                      /\ counters' = CounterSet(counters, prefix, next_idx + 1)
                 ELSE UNCHANGED <<files, saved, counters>>
              /\ pos' = AfterUrl(pos, o)
    /\ UNCHANGED <<pc, fetches, page, cands, result, calls, urls>>
    /\ UNCHANGED fbVars

\* the loop is over; main prints "Done.", line 239
DownloadReturn ==
    /\ pc = "download"
    /\ pos > Len(urls)
    /\ pc' = "done"
    /\ UNCHANGED <<fetches, page, cands, result, calls, saved, files>>
    /\ UNCHANGED dlVars
    /\ UNCHANGED fbVars

\* --------------------------------------------- fallback_guess_by_prefixes
\* what requests.head does: status 200, another status, a
\* requests.RequestException, an exception of another type
HeadOutcomes == {"200", "404", "reqexc", "otherexc"}

\* try_head, lines 142-147: its return value when it returns
try_head(o) == o = "200"

\* try_head: the exceptions its except clause does not catch
TryHeadRaises(o) == o \notin {"200", "404", "reqexc"}

\* (asset or "full-desktop.jpg").lstrip("/"), line 175
Fname(a) == [(IF a = EmptyAsset THEN DefaultAsset ELSE a) EXCEPT !.lead = 0]

\* base.format(code=code) + fname, lines 166, 173-176
Candidate(prefix, n, a) ==
    MkUrl("https", CdnDirs(prefix), <<prefix, Fmt03(n)>>, Fname(a).name, Fname(a).ext, "", "")

\* mutant of InRange: the upper bound is included
InRangeInclusive(n) == n <= UpperBound

\* i in range(start, 2000), line 172
InRange(n) == n < UpperBound

\* mutant of MissStreakAfter: a hit does not reset the streak
MissStreakNoReset(ms, hit) == IF hit THEN ms ELSE ms + 1

\* miss_streak after a probe, lines 181 and 187
MissStreakAfter(ms, hit) == IF hit THEN 0 ELSE ms + 1

\* if miss_streak >= miss_limit: break, line 182
Abandons(ms, ml) == ms >= ml

\* the for loop of line 164 takes the next prefix, lines 164-170
NextPrefix ==
    /\ pc = "scan"
    /\ pfx < Len(prefixes)
    /\ pfx' = pfx + 1
    /\ miss_streak' = 0
    /\ idx' = 1
    /\ i' = start
    /\ probed' = <<>>
    /\ pc' = "probe"
    /\ UNCHANGED <<fetches, page, cands, result, calls, saved, files>>
    /\ UNCHANGED <<prefixes, start, miss_limit, asset>>
    /\ UNCHANGED dlVars

\* lines 173-185: the probe of code i misses
ProbeMiss ==
    /\ pc = "probe"
    /\ InRange(i)
    /\ \E o \in HeadOutcomes :
          /\ ~TryHeadRaises(o)
          /\ ~try_head(o)
          /\ probed' = Append(probed, [code |-> i, res |-> "miss"])
    /\ miss_streak' = MissStreakAfter(miss_streak, FALSE)
    /\ IF Abandons(miss_streak', miss_limit)
       THEN /\ pc' = "scan"
            /\ i' = i
       ELSE /\ pc' = pc
            /\ i' = i + 1
    /\ UNCHANGED <<fetches, page, cands, result, calls, saved, files>>
    /\ UNCHANGED <<prefixes, start, miss_limit, asset, pfx, idx>>
    /\ UNCHANGED dlVars

\* lines 173-178, 187-196: the probe of code i hits and the image is fetched
ProbeHit ==
    /\ pc = "probe"
    /\ InRange(i)
    /\ i \in CardCodes
    /\ \E o \in HeadOutcomes, g \in GetOutcomes :
          LET chosen == Candidate(prefixes[pfx], i, asset)
              dest   == Dest(prefixes[pfx], idx, ".jpg")
          IN  /\ ~TryHeadRaises(o)
              /\ try_head(o)
              /\ miss_streak' = MissStreakAfter(miss_streak, TRUE)
              /\ IF g = "ok"
                 THEN /\ files' = WriteBytes(files, dest, chosen)
                      /\ saved' = Append(saved, [dest |-> dest, url |-> chosen, pass |-> pfx])
                      /\ idx' = idx + 1
                      /\ probed' = Append(probed, [code |-> i, res |-> "saved"])
                 ELSE /\ UNCHANGED <<files, saved, idx>>
                      /\ probed' = Append(probed, [code |-> i, res |-> "getfail"])
    /\ i' = i + 1
    /\ UNCHANGED <<pc, fetches, page, cands, result, calls>>
    /\ UNCHANGED <<prefixes, start, miss_limit, asset, pfx>>
    /\ UNCHANGED dlVars

\* lines 143-147: requests.head raises what try_head does not catch, and the
\* exception leaves fallback_guess_by_prefixes and main
ProbeRaise ==
    /\ pc = "probe"
    /\ InRange(i)
    /\ \E o \in HeadOutcomes :
          /\ TryHeadRaises(o)
          /\ probed' = Append(probed, [code |-> i, res |-> "raised"])
    /\ pc' = "crashed"
    /\ UNCHANGED <<fetches, page, cands, result, calls, saved, files>>
    /\ UNCHANGED <<prefixes, start, miss_limit, asset, pfx, i, miss_streak, idx>>
    /\ UNCHANGED dlVars

\* range(start, 2000) is exhausted, line 172
RangeDone ==
    /\ pc = "probe"
    /\ ~InRange(i)
    /\ pc' = "scan"
    /\ UNCHANGED <<fetches, page, cands, result, calls, saved, files>>
    /\ UNCHANGED <<prefixes, start, miss_limit, asset, pfx, i, miss_streak, idx, probed>>
    /\ UNCHANGED dlVars

\* the loop over the prefixes is over; main prints "Done.", lines 233-234
FallbackReturn ==
    /\ pc = "scan"
    /\ pfx >= Len(prefixes)
    /\ pc' = "done"
    /\ UNCHANGED <<fetches, page, cands, result, calls, saved, files>>
    /\ UNCHANGED fbVars
    /\ UNCHANGED dlVars

Next ==
    \/ FetchFail
    \/ FetchOk
    \/ CallFallback
    \/ CallDownload
    \/ DownloadStep
    \/ DownloadReturn
    \/ NextPrefix
    \/ ProbeMiss
    \/ ProbeHit
    \/ ProbeRaise
    \/ RangeDone
    \/ FallbackReturn

Spec == Init /\ [][Next]_vars

\* main is one sequential thread and every request has a timeout (lines 133,
\* 144, 190, 221), so a step that can be taken is taken
LiveSpec == Init /\ [][Next]_vars /\ WF_vars(Next)

Terminated == pc \in {"done", "crashed"}

\* ------------------------------------------------------------ properties
\* the number a file name made of decimal digits stands for
RECURSIVE FileNo(_)
FileNo(name) ==
    IF name = <<>> THEN 0
    ELSE 10 * FileNo(SubSeq(name, 1, Len(name) - 1)) + name[Len(name)]

\* the successful saves into directory d, as positions of the log
SavedIn(d) == {k \in 1..Len(saved) : saved[k].dest.dir = d}

SavedDirs == {saved[k].dest.dir : k \in 1..Len(saved)}

DownloadCalled == \E k \in 1..Len(calls) : calls[k] = "download_images"

FallbackCalled == \E k \in 1..Len(calls) : calls[k] = "fallback"

\* two URLs that are equal once query string and fragment are removed
SameStripped(a, b) ==
    /\ a.scheme = b.scheme
    /\ a.host = b.host
    /\ a.dirs = b.dirs
    /\ a.leaf = b.leaf
    /\ a.name = b.name
    /\ a.ext = b.ext

\* the number of misses at the end of a probe log
RECURSIVE TrailingMisses(_)
TrailingMisses(log) ==
    IF log = <<>> \/ log[Len(log)].res # "miss" THEN 0
    ELSE 1 + TrailingMisses(SubSeq(log, 1, Len(log) - 1))

IsHit(p) == p.res \in {"saved", "getfail"}

\* the files written while the current prefix was scanned
PassFiles == {saved[k].dest : k \in {n \in 1..Len(saved) : saved[n].pass = pfx}}

\* C1: under every category directory the numbers of the files written are
\* exactly 1..k, k being the number of successful saves into that category so
\* far, and the category's counter is k + 1, in download_images and in
\* fallback_guess_by_prefixes alike.
C1_GaplessPerCategory ==
    /\ \A d \in SavedDirs :
          {FileNo(saved[k].dest.name) : k \in SavedIn(d)} = 1..Cardinality(SavedIn(d))
    /\ pc = "download" =>
          \A k \in 1..Len(urls) :
             CounterGet(counters, Category(urls[k])) = Cardinality(SavedIn(Category(urls[k]))) + 1
    /\ pc = "probe" => idx = Cardinality(SavedIn(prefixes[pfx])) + 1

\* C1, download_images alone: the same statement for the primary path.
C1_DownloaderGapless == DownloadCalled => C1_GaplessPerCategory

\* C2, the rule of the miss counter: it counts the misses since the last hit
\* of the prefix; while a prefix is scanned it is below miss_limit (>= 1); the
\* probe at which it reaches miss_limit is the last of the prefix, after
\* which the scan is at the next prefix.
C2_MissRule ==
    (FallbackCalled /\ pfx >= 1 /\ pc # "crashed") =>
        /\ miss_streak = TrailingMisses(probed)
        /\ miss_limit >= 1 =>
              /\ pc = "probe" => miss_streak < miss_limit
              /\ \A n \in 1..(Len(probed) - 1) :
                    TrailingMisses(SubSeq(probed, 1, n)) < miss_limit
              /\ TrailingMisses(probed) >= miss_limit =>
                    /\ TrailingMisses(probed) = miss_limit
                    /\ pc \in {"scan", "done"}

\* the scenario of C2: miss_limit = 3, scan from code 1, hits at codes 1 and
\* 2, misses at 3, 4 and 5
C2_Scenario ==
    /\ FallbackCalled
    /\ pfx >= 1
    /\ start = 1
    /\ miss_limit = 3
    /\ Len(probed) >= 5
    /\ IsHit(probed[1])
    /\ IsHit(probed[2])
    /\ \A k \in 3..5 : probed[k].res = "miss"

\* what C2 says of its scenario: codes 1..5 are probed, no other, and the
\* files saved are 001.jpg and 002.jpg
C2_ScenarioResult ==
    /\ [k \in 1..Len(probed) |-> probed[k].code] = <<1, 2, 3, 4, 5>>
    /\ pc \in {"scan", "done"}
    /\ PassFiles = {Dest(prefixes[pfx], 1, ".jpg"), Dest(prefixes[pfx], 2, ".jpg")}

\* C2 as stated: the rule of the miss counter, and in the scenario (hits at
\* codes 1 and 2, whatever became of their downloads) exactly codes 1..5 are
\* probed and exactly 001.jpg and 002.jpg are saved.
C2_AsStated == C2_MissRule /\ (C2_Scenario => C2_ScenarioResult)

\* C2 amended: the rule of the miss counter, and in the scenario, when the
\* downloads of both hits succeed, exactly codes 1..5 are probed and exactly
\* 001.jpg and 002.jpg are saved.
C2_MissLimitAbandons ==
    /\ C2_MissRule
    /\ (C2_Scenario /\ probed[1].res = "saved" /\ probed[2].res = "saved")
          => C2_ScenarioResult

\* C2 witness: the scenario has run to the end with both files saved.
C2_Witness ==
    /\ C2_Scenario
    /\ probed[1].res = "saved"
    /\ probed[2].res = "saved"
    /\ pc = "scan"
    /\ miss_streak = 3

\* the part of C3 on the requests: one GET per URL, in input order, with no
\* retry and no abort, whatever the outcomes
C3_OneGetEach ==
    DownloadCalled =>
        /\ pc \in {"download", "done"}
        /\ pos <= Len(urls) + 1
        /\ gets = SubSeq(urls, 1, pos - 1)
        /\ Len(outs) = pos - 1
        /\ pc = "done" => gets = urls

\* C3 as stated: one GET per URL in input order whatever the outcomes, and
\* every URL whose GET succeeded (the request did not raise and the status
\* was 2xx) is saved.
C3_AsStated ==
    /\ C3_OneGetEach
    /\ DownloadCalled =>
          \A k \in 1..Len(outs) :
             outs[k] \notin {"neterr", "status"} =>
                \E j \in 1..Len(saved) : saved[j].url = urls[k]

\* C3 amended: one GET per URL in input order whatever the outcomes, and
\* every URL whose GET succeeded and whose bytes were written without error
\* is saved.
C3_BatchNeverAborts ==
    /\ C3_OneGetEach
    /\ DownloadCalled =>
          \A k \in 1..Len(outs) :
             outs[k] \notin {"neterr", "status", "writeerr"} =>
                \E j \in 1..Len(saved) : saved[j].url = urls[k]

\* C3 witness: a batch of three whose second URL failed and whose other two
\* were saved.
C3_Witness ==
    /\ pc = "done"
    /\ DownloadCalled
    /\ Len(urls) = 3
    /\ outs = <<"ok", "status", "ok">>
    /\ Len(saved) = 2

\* a sequence of URLs in lexicographic order
IsSortedUrls(us) == \A j, k \in 1..Len(us) : j < k => ~UrlLess(us[k], us[j])

\* C4: the page is fetched once; a failed fetch ends the run with no call and
\* nothing written; after a successful fetch main makes exactly one call,
\* the fallback prober iff the extractor returned no URL, else the downloader
\* on the sorted URLs.
C4_OneBranch ==
    /\ fetches <= 1
    /\ pc # "start" => fetches = 1
    /\ Len(calls) <= 1
    /\ page = "failed" => (pc = "crashed" /\ calls = <<>> /\ saved = <<>> /\ files = <<>>)
    /\ (page = "ok" /\ pc # "extracted") =>
          /\ Len(calls) = 1
          /\ FallbackCalled <=> result = <<>>
          /\ DownloadCalled =>
                /\ IsSortedUrls(urls)
                /\ Len(urls) = Len(result)
                /\ {urls[k] : k \in 1..Len(urls)} = {result[k] : k \in 1..Len(result)}
                /\ \A k \in 1..Len(saved) : saved[k].pass = 0
          /\ FallbackCalled => (urls = <<>> /\ gets = <<>>)

\* C4 witness: the downloader has run on URLs that were extracted in another
\* order than the sorted one.
C4_Witness ==
    /\ pc = "done"
    /\ calls = <<"download_images">>
    /\ Len(urls) >= 2
    /\ urls # result

\* C5: a probe never raises: no probe of the fallback prober ends in an
\* exception that leaves the scan, and the run is not aborted by one.
C5_ProbeNeverRaises ==
    FallbackCalled =>
        /\ pc # "crashed"
        /\ \A k \in 1..Len(probed) : probed[k].res # "raised"

\* C6: every file written is named by a zero-padded sequence number followed
\* by the extension inferred from the URL it was fetched from.
C6_NumberPlusInferredExt ==
    \A k \in 1..Len(saved) :
        /\ \E n \in 1..Len(saved) : saved[k].dest.name = Fmt03(n)
        /\ saved[k].dest.ext = file_ext_for_url(saved[k].url)

\* what became of URL u in download_images
OutcomeOf(u) == outs[CHOOSE k \in 1..Len(urls) : urls[k] = u]

\* the set of URLs the extractor returned, whatever their order
Extracted == {result[k] : k \in 1..Len(result)}

\* the destination that the set of extracted URLs and the outcomes give u
ReproducibleDest(u) ==
    Dest(Category(u),
         1 + Cardinality({v \in Extracted :
                             /\ Category(v) = Category(u)
                             /\ UrlLess(v, u)
                             /\ OutcomeOf(v) = "ok"}),
         file_ext_for_url(u))

\* C7: the destination of every saved URL is a function of the set of
\* extracted URLs and of their outcomes alone (not of the order in which the
\* extractor returned them), so two runs with the same set and the same
\* outcomes save each URL to the same place.
C7_Reproducible ==
    (pc = "done" /\ DownloadCalled) =>
        \A u \in Extracted :
           /\ OutcomeOf(u) = "ok" =>
                 /\ \E k \in 1..Len(saved) :
                       saved[k].url = u /\ saved[k].dest = ReproducibleDest(u)
                 /\ \A k \in 1..Len(saved) :
                       saved[k].url = u => saved[k].dest = ReproducibleDest(u)
           /\ OutcomeOf(u) # "ok" => \A k \in 1..Len(saved) : saved[k].url # u

\* C7 witness: a finished run whose URLs were extracted in another order than
\* the sorted one and which saved two files into one category.
C7_Witness ==
    /\ pc = "done"
    /\ DownloadCalled
    /\ urls # result
    /\ \E j, k \in 1..Len(saved) : j # k /\ saved[j].dest.dir = saved[k].dest.dir

\* C8: no two URLs of the output are equal after stripping query and
\* fragment; each is the first candidate with its key, unstripped; and they
\* are in the order of their first occurrence.
C8_DedupFirstWins ==
    pc = "extracted" =>
        /\ \A j, k \in 1..Len(result) :
              j # k => ~SameStripped(result[j], result[k])
        /\ \A k \in 1..Len(result) :
              \E m \in 1..Len(cands) :
                 /\ cands[m] = result[k]
                 /\ \A n \in 1..(m - 1) : ~SameStripped(cands[n], result[k])
        /\ \A j, k \in 1..Len(result) :
              j < k =>
                 \E m, n \in 1..Len(cands) :
                    /\ m < n
                    /\ cands[m] = result[j]
                    /\ cands[n] = result[k]

\* C8 witness: two candidates differ in the query string only; the first is
\* kept as it was written and the second dropped.
C8_Witness ==
    /\ pc = "extracted"
    /\ cands = <<U2, U3, U1>>
    /\ result = <<U2, U3>>

\* the part of C9 on each prefix: the codes probed are start, start + 1, ...
\* in this order, all below 2000, so at most max(0, 2000 - start) of them
C9_ProbesBounded ==
    (FallbackCalled /\ pfx >= 1) =>
        /\ \A k \in 1..Len(probed) :
              /\ probed[k].code = start + k - 1
              /\ probed[k].code < UpperBound
        /\ Len(probed) <= (IF UpperBound - start > 0 THEN UpperBound - start ELSE 0)

\* C9: fallback_guess_by_prefixes terminates whatever its arguments and the
\* outcomes, and for each prefix probes start, start + 1, ... in this order,
\* each once, never a code of 2000 or more.
C9_Terminates == [](C9_ProbesBounded) /\ <>(Terminated)

\* C9 witness: a prefix whose scan ended at the upper bound with the miss
\* limit never reached.
C9_Witness ==
    /\ pc = "scan"
    /\ pfx >= 1
    /\ miss_limit = HugeMissLimit
    /\ i = UpperBound
    /\ Len(probed) = 2
    /\ miss_streak < miss_limit

\* C10: no successful save writes to a destination that an earlier save of
\* the run wrote.
C10_NoOverwrite ==
    \A j, k \in 1..Len(saved) : j < k => saved[j].dest # saved[k].dest

====
